---- MODULE Spec2Model ----
(***************************************************************************)
(* Model of src/src/Game.tsx: the adversarial word game component.         *)
(*                                                                         *)
(* A word is a sequence of one-letter strings.  The React state of the     *)
(* component is the first seven variables.  Every action is one event      *)
(* handler run to completion: the batched state updates, the render that   *)
(* follows, and the effects that render triggers (the keydown listener is  *)
(* re-registered when currentGuess or gameState changed; the Selector      *)
(* findNewWorstTarget runs when guesses changed).                          *)
(***************************************************************************)
EXTENDS Integers, Sequences, FiniteSets, TLC

VARIABLES
    gameState,     \* useState(GameState.Playing)
    guesses,       \* useState<string[]>([]): the locked guesses
    currentGuess,  \* useState<string>(""): the input
    wordLength,    \* useState(5)
    hint,          \* useState<string>("Make your first guess!")
    targets,       \* useState(allTargets(wordLength)): the pool
    target,        \* useState(pick(targets))
    listener,      \* what the registered keydown listener's onKey closes over
    consoleLog,    \* what the last step wrote with console.log: <<>> or <<n>>
    commonList     \* the content of common.json that the build imports

vars == <<gameState, guesses, currentGuess, wordLength, hint, targets, target,
          listener, consoleLog, commonList>>

(***************************************************************************)
(* Bounds and program constants.                                           *)
(***************************************************************************)
\* props.maxGuesses
maxGuesses == 2
\* smallest word length offered by the range input
minLength == 4
\* largest word length offered by the range input in the model (11 in the source)
MaxLength == 5
\* useState(5) for wordLength
initialWordLength == 5
\* common.slice(0, 20000)
sliceLimit == 20000
\* the keys matched by /^[a-z]$/ that the model types
Letters == {"a", "b", "c"}

Min(a, b) == IF a < b THEN a ELSE b

Range(s) == {s[i] : i \in DOMAIN s}

Rep(ch, n) == [i \in 1..n |-> ch]

(***************************************************************************)
(* The word lists (dictionary.json, common.json, names).  For every length *)
(* n the lists hold the same five shapes of word:                          *)
(*   a b^(n-1)  dictionary word, common, a proper name (never a target)    *)
(*   a c^(n-1)  common, not a dictionary word (never a target, no guess)   *)
(*   b^n, c b^(n-1), b c b^(n-2)   dictionary words, common: the targets   *)
(* The guess a b^(n-1) cannot tell b^n from c b^(n-1); the guess b^n gives *)
(* c b^(n-1) and b c b^(n-2) the same score and different clues.           *)
(***************************************************************************)
Lengths == minLength..MaxLength

WordAB(n) == <<"a">> \o Rep("b", n - 1)
WordAC(n) == <<"a">> \o Rep("c", n - 1)
WordB(n) == Rep("b", n)
WordBCB(n) == <<"b", "c">> \o Rep("b", n - 2)
WordCB(n) == <<"c">> \o Rep("b", n - 1)

dictionary ==
    UNION {{WordAB(n), WordB(n), WordBCB(n), WordCB(n)} : n \in Lengths}

dictionarySet == dictionary

names == {WordAB(n) : n \in Lengths}

RECURSIVE commonFrom(_)
commonFrom(n) ==
    IF n > MaxLength THEN <<>>
    ELSE <<WordB(n), WordAB(n), WordAC(n), WordBCB(n), WordCB(n)>> \o commonFrom(n + 1)

common == commonFrom(minLength)

\* a common.json that has no word of the smallest length
commonSparse == SelectSeq(common, LAMBDA word : Len(word) # minLength)

\* const targets = common.slice(0, 20000).filter(...)
moduleTargets ==
    SelectSeq(SubSeq(commonList, 1, Min(sliceLimit, Len(commonList))),
              LAMBDA word : word \in dictionarySet /\ word \notin names)

allTargets(length) == SelectSeq(moduleTargets, LAMBDA word : Len(word) = length)

(***************************************************************************)
(* ./util pick: a uniformly random element; undefined for an empty array.  *)
(***************************************************************************)
undefined == <<"undefined">>

pick(array) == IF array = <<>> THEN {undefined} ELSE Range(array)

(***************************************************************************)
(* ./clue: the duplicate-aware two-pass clue computation.                  *)
(***************************************************************************)
Absent == "Absent"
Elsewhere == "Elsewhere"
Correct == "Correct"

\* target letters not matched exactly, as a count per letter
unmatched(word, tar) ==
    [l \in Range(tar) \cup Range(word) |->
        Cardinality({i \in DOMAIN tar : tar[i] = l /\ (i \notin DOMAIN word \/ word[i] # l)})]

\* variant: an Elsewhere match does not use the target letter up
RECURSIVE clueFrom_noConsume(_, _, _, _)
clueFrom_noConsume(word, tar, i, left) ==
    IF i > Len(word) THEN <<>>
    ELSE IF i \in DOMAIN tar /\ tar[i] = word[i]
         THEN <<[clue |-> Correct, letter |-> word[i]]>>
              \o clueFrom_noConsume(word, tar, i + 1, left)
    ELSE IF left[word[i]] > 0
         THEN <<[clue |-> Elsewhere, letter |-> word[i]]>>
              \o clueFrom_noConsume(word, tar, i + 1, left)
    ELSE <<[clue |-> Absent, letter |-> word[i]]>>
         \o clueFrom_noConsume(word, tar, i + 1, left)

RECURSIVE clueFrom(_, _, _, _)
clueFrom(word, tar, i, left) ==
    IF i > Len(word) THEN <<>>
    ELSE IF i \in DOMAIN tar /\ tar[i] = word[i]
         THEN <<[clue |-> Correct, letter |-> word[i]]>> \o clueFrom(word, tar, i + 1, left)
    ELSE IF left[word[i]] > 0
         THEN <<[clue |-> Elsewhere, letter |-> word[i]]>>
              \o clueFrom(word, tar, i + 1, [left EXCEPT ![word[i]] = @ - 1])
    ELSE <<[clue |-> Absent, letter |-> word[i]]>> \o clueFrom(word, tar, i + 1, left)

clue(word, tar) == clueFrom(word, tar, 1, unmatched(word, tar))

(***************************************************************************)
(* The Selector.                                                           *)
(***************************************************************************)
\* variant: some position agrees, not every position
guessesAreValidFor_some(gs, newTarget, oldTarget) ==
    \A k \in DOMAIN gs :
        LET newClues == clue(gs[k], newTarget)
            oldClues == clue(gs[k], oldTarget)
        IN  \E idx \in DOMAIN newClues : newClues[idx].clue = oldClues[idx].clue

guessesAreValidFor(gs, newTarget, oldTarget) ==
    \A k \in DOMAIN gs :
        LET newClues == clue(gs[k], newTarget)
            oldClues == clue(gs[k], oldTarget)
        IN  \A idx \in DOMAIN newClues : newClues[idx].clue = oldClues[idx].clue

\* the ranks are kept in halves: 0.5 is 1 and 1 is 2
yellowRank == 1
greenRank == 2

RECURSIVE sumClues(_, _)
sumClues(letters, i) ==
    IF i > Len(letters) THEN 0
    ELSE (IF letters[i].clue = Correct THEN greenRank
          ELSE IF letters[i].clue = Elsewhere THEN yellowRank
          ELSE 0) + sumClues(letters, i + 1)

RECURSIVE scoreFrom(_, _, _)
scoreFrom(gs, tar, k) ==
    IF k > Len(gs) THEN 0
    ELSE sumClues(clue(gs[k], tar), 1) + scoreFrom(gs, tar, k + 1)

scoreClues(gs, tar) == scoreFrom(gs, tar, 1)

\* Math.min(...scores); only compared against when scores is non-empty
minOf(scores) ==
    CHOOSE m \in Range(scores) : \A s \in Range(scores) : m <= s

\* variant: the old target is passed as the candidate
allValidTargets_wrongArg(gs, pool, tgt) ==
    SelectSeq(pool, LAMBDA tar : guessesAreValidFor(gs, tgt, tgt))

\* variant: the filter runs over the full list of the length, not the pool
allValidTargets_fromFullList(gs, pool, tgt) ==
    SelectSeq(allTargets(Len(tgt)), LAMBDA tar : guessesAreValidFor(gs, tar, tgt))

allValidTargets(gs, pool, tgt) ==
    SelectSeq(pool, LAMBDA tar : guessesAreValidFor(gs, tar, tgt))

\* variant: the scores are taken over the pool, not over the valid targets
leastHelpful_fromPool(gs, pool, tgt) ==
    LET scores == [i \in DOMAIN pool |-> scoreClues(gs, pool[i])]
    IN  IF pool = <<>> THEN <<>>
        ELSE SelectSeq(pool, LAMBDA tar : scoreClues(gs, tar) = minOf(scores))

leastHelpful(gs, pool, tgt) ==
    LET valid == allValidTargets(gs, pool, tgt)
        scores == [i \in DOMAIN valid |-> scoreClues(gs, valid[i])]
    IN  IF valid = <<>> THEN <<>>
        ELSE SelectSeq(valid, LAMBDA tar : scoreClues(gs, tar) = minOf(scores))

\* variant: the target is picked from the pool before the filter
findNewWorstTarget_pickPool(gs, pool, tgt) ==
    {[newTarget |-> t, leastHelpful |-> leastHelpful(gs, pool, tgt)] : t \in pick(pool)}

\* variant: the pool is not replaced by the filtered list
findNewWorstTarget_keepPool(gs, pool, tgt) ==
    {[newTarget |-> t, leastHelpful |-> pool] : t \in pick(leastHelpful(gs, pool, tgt))}

\* the possible outcomes of one run: the new pool and the target picked
findNewWorstTarget(gs, pool, tgt) ==
    {[newTarget |-> t, leastHelpful |-> leastHelpful(gs, pool, tgt)] :
        t \in pick(leastHelpful(gs, pool, tgt))}

(***************************************************************************)
(* Hints.                                                                  *)
(***************************************************************************)
toUpperCase(w) ==
    [i \in DOMAIN w |->
        CASE w[i] = "a" -> "A" [] w[i] = "b" -> "B" [] w[i] = "c" -> "C"
          [] OTHER -> w[i]]

Hint(kind, word, len) == [kind |-> kind, word |-> word, len |-> len]

hintFirst == Hint("Make your first guess!", <<>>, 0)
hintNone == Hint("", <<>>, 0)
hintTooShort == Hint("Too short", <<>>, 0)
hintInvalid == Hint("Not a valid word", <<>>, 0)
hintWon == Hint("You won! (Enter to play again)", <<>>, 0)
hintLost(tgt) == Hint("You lost! The answer was", toUpperCase(tgt), 0)
hintAnswer(tgt) == Hint("The answer was", toUpperCase(tgt), 0)
hintLetters(len) == Hint("letters", <<>>, len)

(***************************************************************************)
(* Closures.  A handler reads the state of the render that created it.     *)
(* The on-screen Keyboard and the buttons get the handler of the latest    *)
(* render; the document keydown listener keeps the handler of the last     *)
(* render in which currentGuess or gameState changed, so its guesses,      *)
(* wordLength, targets and target may be older than the state.             *)
(***************************************************************************)
Snapshot(gs, len, pool, tgt) ==
    [guesses |-> gs, wordLength |-> len, targets |-> pool, target |-> tgt]

Sources == {"keydown", "Keyboard"}

Closure(src) ==
    IF src = "keydown" THEN listener
    ELSE Snapshot(guesses, wordLength, targets, target)

slice(s, n) == SubSeq(s, 1, Min(n, Len(s)))

(***************************************************************************)
(* Initial state: the mount render followed by the mount effects.          *)
(***************************************************************************)
Mount ==
    /\ gameState = "Playing"
    /\ guesses = <<>>
    /\ currentGuess = <<>>
    /\ wordLength = initialWordLength
    /\ hint = hintFirst
    /\ \E first \in pick(allTargets(initialWordLength)) :
         /\ listener = Snapshot(<<>>, initialWordLength, allTargets(initialWordLength), first)
         /\ \E r \in findNewWorstTarget(<<>>, allTargets(initialWordLength), first) :
              /\ target = r.newTarget
              /\ targets = r.leastHelpful
              /\ consoleLog = <<Len(r.leastHelpful)>>

Init == commonList = common /\ Mount

\* the same component built with the sparse common.json
InitSparse == commonList = commonSparse /\ Mount

\* the render computes clue(guess, target) for every row and throws when the
\* target is undefined: the component is gone and handles no further event
mounted == target # undefined

(***************************************************************************)
(* onKey.  gameState and currentGuess of a closure are always those of the *)
(* state, because the listener is re-registered whenever either changes.   *)
(* A key that changes nothing (any key but Enter outside Playing) has no   *)
(* action.                                                                 *)
(***************************************************************************)
\* Enter in Won or Lost: reset()
KeyEnterReset(src) ==
    LET v == Closure(src) IN
    /\ mounted
    /\ commonList' = commonList
    /\ gameState # "Playing"
    /\ \E picked \in pick(v.targets) :
         /\ guesses' = <<>>
         /\ currentGuess' = <<>>
         /\ hint' = hintNone
         /\ gameState' = "Playing"
         /\ wordLength' = wordLength
         /\ listener' = Snapshot(<<>>, wordLength, targets, picked)
         /\ \E r \in findNewWorstTarget(<<>>, targets, picked) :
              /\ target' = r.newTarget
              /\ targets' = r.leastHelpful
              /\ consoleLog' = <<Len(r.leastHelpful)>>

\* variant: the listener effect depends on [gameState] only, so a letter
\* does not re-register the listener
KeyLetter_noReregister(src, key) ==
    LET v == Closure(src) IN
    /\ mounted
    /\ commonList' = commonList
    /\ gameState = "Playing"
    /\ Len(v.guesses) # maxGuesses
    /\ key \in Letters
    /\ currentGuess' = slice(currentGuess \o <<key>>, v.wordLength)
    /\ hint' = hintNone
    /\ consoleLog' = <<>>
    /\ UNCHANGED <<gameState, guesses, wordLength, targets, target, listener>>

\* a letter key in Playing
KeyLetter(src, key) ==
    LET v == Closure(src) IN
    /\ mounted
    /\ commonList' = commonList
    /\ gameState = "Playing"
    /\ Len(v.guesses) # maxGuesses
    /\ key \in Letters
    /\ currentGuess' = slice(currentGuess \o <<key>>, v.wordLength)
    /\ hint' = hintNone
    /\ listener' = IF currentGuess' # currentGuess
                   THEN Snapshot(guesses, wordLength, targets, target)
                   ELSE listener
    /\ consoleLog' = <<>>
    /\ UNCHANGED <<gameState, guesses, wordLength, targets, target>>

\* variant: the effect that runs the Selector has no dependency list, so it
\* also runs after the render that follows a Backspace
KeyBackspace_effectNoDeps(src) ==
    LET v == Closure(src) IN
    /\ mounted
    /\ commonList' = commonList
    /\ gameState = "Playing"
    /\ Len(v.guesses) # maxGuesses
    /\ currentGuess' = SubSeq(currentGuess, 1, Len(currentGuess) - 1)
    /\ hint' = hintNone
    /\ listener' = IF currentGuess' # currentGuess
                   THEN Snapshot(guesses, wordLength, targets, target)
                   ELSE listener
    /\ \E r \in findNewWorstTarget(guesses, targets, target) :
         /\ target' = r.newTarget
         /\ targets' = r.leastHelpful
         /\ consoleLog' = <<Len(r.leastHelpful)>>
    /\ UNCHANGED <<gameState, guesses, wordLength>>

\* Backspace in Playing
KeyBackspace(src) ==
    LET v == Closure(src) IN
    /\ mounted
    /\ commonList' = commonList
    /\ gameState = "Playing"
    /\ Len(v.guesses) # maxGuesses
    /\ currentGuess' = SubSeq(currentGuess, 1, Len(currentGuess) - 1)
    /\ hint' = hintNone
    /\ listener' = IF currentGuess' # currentGuess
                   THEN Snapshot(guesses, wordLength, targets, target)
                   ELSE listener
    /\ consoleLog' = <<>>
    /\ UNCHANGED <<gameState, guesses, wordLength, targets, target>>

\* Enter in Playing with a guess of the wrong length
KeyEnterTooShort(src) ==
    LET v == Closure(src) IN
    /\ mounted
    /\ commonList' = commonList
    /\ gameState = "Playing"
    /\ Len(v.guesses) # maxGuesses
    /\ Len(currentGuess) # v.wordLength
    /\ hint' = hintTooShort
    /\ consoleLog' = <<>>
    /\ UNCHANGED <<gameState, guesses, currentGuess, wordLength, targets, target, listener>>

\* variant: the last-guess test comes before the win test
commitOutcome_lossFirst(guess, tgt, locked) ==
    IF locked + 1 = maxGuesses
    THEN [hint |-> hintLost(tgt), gameState |-> "Lost"]
    ELSE IF guess = tgt
    THEN [hint |-> hintWon, gameState |-> "Won"]
    ELSE [hint |-> hintNone, gameState |-> "Playing"]

\* variant: the last-guess test does not count the guess being locked
commitOutcome_offByOne(guess, tgt, locked) ==
    IF guess = tgt
    THEN [hint |-> hintWon, gameState |-> "Won"]
    ELSE IF locked = maxGuesses
    THEN [hint |-> hintLost(tgt), gameState |-> "Lost"]
    ELSE [hint |-> hintNone, gameState |-> "Playing"]

\* the hint and the phase a locked-in guess leads to
commitOutcome(guess, tgt, locked) ==
    IF guess = tgt
    THEN [hint |-> hintWon, gameState |-> "Won"]
    ELSE IF locked + 1 = maxGuesses
    THEN [hint |-> hintLost(tgt), gameState |-> "Lost"]
    ELSE [hint |-> hintNone, gameState |-> "Playing"]

\* variant: no return after "Not a valid word", the guess is locked in
KeyEnterInvalid_noReturn(src) ==
    LET v == Closure(src)
        newGuesses == guesses \o <<currentGuess>>
    IN
    /\ mounted
    /\ commonList' = commonList
    /\ gameState = "Playing"
    /\ Len(v.guesses) # maxGuesses
    /\ Len(currentGuess) = v.wordLength
    /\ currentGuess \notin dictionary
    /\ guesses' = newGuesses
    /\ currentGuess' = <<>>
    /\ hint' = commitOutcome(currentGuess, v.target, Len(v.guesses)).hint
    /\ gameState' = commitOutcome(currentGuess, v.target, Len(v.guesses)).gameState
    /\ wordLength' = wordLength
    /\ listener' = Snapshot(newGuesses, wordLength, targets, target)
    /\ \E r \in findNewWorstTarget(newGuesses, targets, target) :
         /\ target' = r.newTarget
         /\ targets' = r.leastHelpful
         /\ consoleLog' = <<Len(r.leastHelpful)>>

\* Enter in Playing with a full-length guess that is not in the dictionary
KeyEnterInvalid(src) ==
    LET v == Closure(src) IN
    /\ mounted
    /\ commonList' = commonList
    /\ gameState = "Playing"
    /\ Len(v.guesses) # maxGuesses
    /\ Len(currentGuess) = v.wordLength
    /\ currentGuess \notin dictionary
    /\ hint' = hintInvalid
    /\ consoleLog' = <<>>
    /\ UNCHANGED <<gameState, guesses, currentGuess, wordLength, targets, target, listener>>

\* Enter in Playing with a full-length dictionary word: the guess is locked in
KeyEnterCommit(src) ==
    LET v == Closure(src)
        newGuesses == guesses \o <<currentGuess>>
    IN
    /\ mounted
    /\ commonList' = commonList
    /\ gameState = "Playing"
    /\ Len(v.guesses) # maxGuesses
    /\ Len(currentGuess) = v.wordLength
    /\ currentGuess \in dictionary
    /\ guesses' = newGuesses
    /\ currentGuess' = <<>>
    /\ hint' = commitOutcome(currentGuess, v.target, Len(v.guesses)).hint
    /\ gameState' = commitOutcome(currentGuess, v.target, Len(v.guesses)).gameState
    /\ wordLength' = wordLength
    /\ listener' = Snapshot(newGuesses, wordLength, targets, target)
    /\ \E r \in findNewWorstTarget(newGuesses, targets, target) :
         /\ target' = r.newTarget
         /\ targets' = r.leastHelpful
         /\ consoleLog' = <<Len(r.leastHelpful)>>

\* variant: the button is disabled only outside Playing
GiveUp_noGuessCheck ==
    /\ mounted
    /\ commonList' = commonList
    /\ ~(gameState # "Playing")
    /\ hint' = hintAnswer(target)
    /\ gameState' = "Lost"
    /\ listener' = Snapshot(guesses, wordLength, targets, target)
    /\ consoleLog' = <<>>
    /\ UNCHANGED <<guesses, currentGuess, wordLength, targets, target>>

\* the Give up button
GiveUp ==
    /\ mounted
    /\ commonList' = commonList
    /\ ~(gameState # "Playing" \/ Len(guesses) = 0)
    /\ hint' = hintAnswer(target)
    /\ gameState' = "Lost"
    /\ listener' = Snapshot(guesses, wordLength, targets, target)
    /\ consoleLog' = <<>>
    /\ UNCHANGED <<guesses, currentGuess, wordLength, targets, target>>

\* variant: the range input is never disabled
ChangeWordLength_neverDisabled(length) ==
    /\ mounted
    /\ commonList' = commonList
    /\ length \in Lengths
    /\ length # wordLength
    /\ LET newTargets == allTargets(length) IN
         /\ targets' = newTargets
         /\ target' \in pick(newTargets)
    /\ wordLength' = length
    /\ hint' = hintLetters(length)
    /\ consoleLog' = <<>>
    /\ UNCHANGED <<gameState, guesses, currentGuess, listener>>

\* the Letters range input
ChangeWordLength(length) ==
    /\ mounted
    /\ commonList' = commonList
    /\ ~(Len(guesses) > 0 \/ currentGuess # <<>>)
    /\ length \in Lengths
    /\ length # wordLength
    /\ LET newTargets == allTargets(length) IN
         /\ targets' = newTargets
         /\ target' \in pick(newTargets)
    /\ wordLength' = length
    /\ hint' = hintLetters(length)
    /\ consoleLog' = <<>>
    /\ UNCHANGED <<gameState, guesses, currentGuess, listener>>

Next ==
    \/ \E src \in Sources : KeyEnterReset(src)
    \/ \E src \in Sources, key \in Letters : KeyLetter(src, key)
    \/ \E src \in Sources : KeyBackspace(src)
    \/ \E src \in Sources : KeyEnterTooShort(src)
    \/ \E src \in Sources : KeyEnterInvalid(src)
    \/ \E src \in Sources : KeyEnterCommit(src)
    \/ GiveUp
    \/ \E length \in Lengths : ChangeWordLength(length)

Spec == Init /\ [][Next]_vars

SpecSparse == InitSparse /\ [][Next]_vars

(***************************************************************************)
(* Properties.                                                             *)
(***************************************************************************)
clueKinds(word, tar) ==
    LET letters == clue(word, tar) IN [i \in DOMAIN letters |-> letters[i].clue]

fullList == allTargets(wordLength)

\* the step ran the Selector (it wrote the pool size to the console)
selectorRan == consoleLog' # <<>>

\* the step locked a guess in
committed == guesses' = Append(guesses, currentGuess) /\ gameState = "Playing"

\* the step was an Enter in Won or Lost
wasReset == gameState # "Playing" /\ gameState' = "Playing"

\* C1: every step that changes the target leaves the clue kinds of every
\* locked guess as they were: for each guess g locked after the step,
\* clue(g, new target) has the kinds of clue(g, old target) at every position.
C1_ConsistencyPreserved ==
    [][target' # target =>
          \A i \in DOMAIN guesses' :
              clueKinds(guesses'[i], target') = clueKinds(guesses'[i], target)]_vars

\* a reselection after a locked guess has replaced the target by another word
C1_Witness ==
    /\ Len(guesses) >= 1
    /\ consoleLog # <<>>
    /\ listener.guesses = guesses
    /\ listener.target # target

\* C2: the target is a member of the pool in every state.
C2_TargetInPool == target \in Range(targets)

\* a reset whose handler picked from an older pool a word the pool no longer
\* holds, followed by the reselection
C2_Witness ==
    /\ guesses = <<>>
    /\ consoleLog # <<>>
    /\ listener.target \notin Range(targets)
    /\ target \in Range(targets)

\* C3: every word of the pool gives, for every locked guess, the clue kinds
\* that the target gives.
C3_PoolInvariant ==
    \A i \in DOMAIN guesses : \A j \in DOMAIN targets :
        clueKinds(guesses[i], targets[j]) = clueKinds(guesses[i], target)

\* a locked guess has narrowed the pool to two words
C3_Witness ==
    /\ Len(guesses) >= 1
    /\ Len(targets) = 2
    /\ Len(fullList) > 2

\* C4: an Enter in Won or Lost starts a game whose pool is the full candidate
\* list of the word length and whose target is drawn from it, with guesses,
\* input and hint cleared and phase Playing.
C4_FullReset ==
    [][wasReset =>
          /\ targets' = fullList
          /\ target' \in Range(fullList)
          /\ guesses' = <<>>
          /\ currentGuess' = <<>>
          /\ hint' = hintNone
          /\ gameState' = "Playing"]_vars

\* C5: the word named in the "You lost" hint is the target of the session.
C5_LostHintNamesTarget ==
    (gameState = "Lost" /\ hint.kind = hintLost(target).kind)
        => hint.word = toUpperCase(target)

\* C6: in Playing, locking in a full-length dictionary word equal to the
\* target appends it to the guesses, clears the input and moves to Won,
\* whatever the number of guesses locked before.
C6_CorrectGuessWins ==
    [][(/\ gameState = "Playing"
        /\ Len(currentGuess) = wordLength
        /\ currentGuess \in dictionary
        /\ currentGuess = target
        /\ guesses' # guesses)
          => /\ guesses' = Append(guesses, currentGuess)
             /\ currentGuess' = <<>>
             /\ gameState' = "Won"
             /\ hint' = hintWon]_vars

\* the last allowed guess was the target
C6_Witness ==
    /\ gameState = "Won"
    /\ Len(guesses) = maxGuesses
    /\ guesses[Len(guesses)] = target

\* C7 as stated: a winning commit does not run the Selector and leaves target
\* and pool as they were.
C7_NoReselectionOnWin ==
    [][(committed /\ gameState' = "Won")
          => ~selectorRan /\ target' = target /\ targets' = targets]_vars

\* C7 amended: a winning commit runs the Selector once more; the target keeps
\* its value and the pool becomes the words of the previous pool equal to the
\* winning guess.
C7_WinReselectsToGuess ==
    [][(committed /\ gameState' = "Won")
          => /\ selectorRan
             /\ target' = target
             /\ targets' = SelectSeq(targets, LAMBDA w : w = currentGuess)]_vars

\* a win whose reselection shrank a pool of several words
C7_Witness ==
    /\ gameState = "Won"
    /\ consoleLog = <<1>>
    /\ Len(listener.targets) > 1
    /\ listener.guesses = guesses

giveUpHint == hintAnswer(target).kind

\* C8: no step reveals the answer by give-up while no guess is locked; a
\* give-up step starts in Playing with a locked guess, moves to Lost, names
\* the target in the hint and leaves guesses, target and pool alone; and the
\* button is enabled exactly in Playing with a locked guess.
C8_GiveUp ==
    /\ [][(hint'.kind = giveUpHint /\ hint' # hint)
            => /\ Len(guesses) > 0
               /\ gameState = "Playing"
               /\ gameState' = "Lost"
               /\ hint'.word = toUpperCase(target)
               /\ UNCHANGED <<guesses, target, targets>>]_vars
    /\ []((ENABLED GiveUp) <=> (gameState = "Playing" /\ Len(guesses) > 0))

\* the player gave up after a locked guess
C8_Witness ==
    /\ gameState = "Lost"
    /\ hint.kind = giveUpHint
    /\ hint.word = toUpperCase(target)
    /\ Len(guesses) > 0

\* C9: in Playing, while the input is not a full-length dictionary word, no
\* step locks a guess or runs the Selector; a step that sets the hint
\* "Too short" starts in Playing with an input whose length is not
\* wordLength, one that sets "Not a valid word" with a full-length input
\* outside the dictionary; both leave guesses, input, target, pool and phase
\* alone.
C9_RejectedEnter ==
    [][/\ (gameState = "Playing"
            /\ ~(Len(currentGuess) = wordLength /\ currentGuess \in dictionary))
          => guesses' = guesses /\ ~selectorRan
       /\ (hint' # hint /\ hint' \in {hintTooShort, hintInvalid})
          => /\ gameState = "Playing"
             /\ hint' = hintTooShort => Len(currentGuess) # wordLength
             /\ hint' = hintInvalid =>
                   Len(currentGuess) = wordLength /\ currentGuess \notin dictionary
             /\ UNCHANGED <<guesses, currentGuess, target, targets, gameState>>]_vars

\* a full-length non-word was rejected after a guess had been locked
C9_Witness ==
    /\ hint = hintInvalid
    /\ Len(guesses) >= 1
    /\ Len(currentGuess) = wordLength

\* C10: at most maxGuesses guesses are locked, and fewer while Playing.
C10_GuessBound ==
    /\ Len(guesses) <= maxGuesses
    /\ gameState = "Playing" => Len(guesses) < maxGuesses

\* the last allowed guess was locked and was wrong
C10_Witness ==
    /\ Len(guesses) = maxGuesses
    /\ gameState = "Lost"

\* C11: the input is never longer than wordLength, every locked guess has
\* length wordLength and is a dictionary word, and no step changes
\* wordLength while a guess is locked or the input is non-empty.
C11_Lengths ==
    /\ [](/\ Len(currentGuess) <= wordLength
          /\ \A i \in DOMAIN guesses :
                Len(guesses[i]) = wordLength /\ guesses[i] \in dictionary)
    /\ [][wordLength' # wordLength => guesses = <<>> /\ currentGuess = <<>>]_vars

\* after a change of the word length a guess is locked and the input is full
C11_Witness ==
    /\ wordLength # initialWordLength
    /\ Len(guesses) >= 1
    /\ Len(currentGuess) = wordLength

\* C12: a step that runs the Selector leaves a pool that is a part of the
\* pool before it, no longer than it, and a target that is in the new pool;
\* while the word length stays the pool never grows.
C12_MonotoneShrink ==
    [][/\ selectorRan =>
            /\ Range(targets') \subseteq Range(targets)
            /\ Len(targets') <= Len(targets)
            /\ target' \in Range(targets')
       /\ wordLength' = wordLength => Range(targets') \subseteq Range(targets)]_vars

\* a reselection in Playing has dropped words from the pool
C12_Witness ==
    /\ gameState = "Playing"
    /\ consoleLog # <<>>
    /\ Len(guesses) >= 1
    /\ listener.guesses = guesses
    /\ Len(targets) < Len(listener.targets)

\* C13: the session never holds an undefined target, also when the list of
\* candidates of a word length is empty.
C13_NoUndefinedTarget == target # undefined

\* the history, pool and target that the Selector of this step read: the
\* state of the render whose effect ran it
ranOn == listener'

\* the words of the pool that give every guess the clue kinds the target gives
validSet(gs, pool, tgt) ==
    {t \in Range(pool) : \A k \in DOMAIN gs : clueKinds(gs[k], t) = clueKinds(gs[k], tgt)}

\* twice the score: 2 per Correct and 1 per Elsewhere, over all guesses
RECURSIVE halves(_, _)
halves(gs, t) ==
    IF gs = <<>> THEN 0
    ELSE LET kinds == clueKinds(Head(gs), t)
         IN  2 * Cardinality({i \in DOMAIN kinds : kinds[i] = Correct})
             + Cardinality({i \in DOMAIN kinds : kinds[i] = Elsewhere})
             + halves(Tail(gs), t)

worstOf(gs, valid) == {t \in valid : \A u \in valid : halves(gs, t) <= halves(gs, u)}

\* C14: a step that runs the Selector leaves as pool exactly the valid words
\* of minimum score, in the order of the pool before, and a target that is one
\* of them; no valid word scores lower than the new target.
C14_SelectorResult ==
    [][selectorRan =>
          LET valid == validSet(ranOn.guesses, ranOn.targets, ranOn.target)
              worst == worstOf(ranOn.guesses, valid)
          IN  /\ targets' = SelectSeq(ranOn.targets, LAMBDA t : t \in worst)
              /\ target' \in worst
              /\ \A u \in valid :
                    halves(ranOn.guesses, target') <= halves(ranOn.guesses, u)]_vars

\* the Selector kept two of the three words of the pool
C14_Witness ==
    /\ guesses # <<>>
    /\ consoleLog = <<2>>
    /\ listener.guesses = guesses
    /\ Len(listener.targets) = 3

\* the words the render clues against the target: the locked guesses and the
\* input
rowWords == Range(guesses) \cup {currentGuess}

occurrences(l, w) == Cardinality({i \in DOMAIN w : w[i] = l})

\* C15: for every row word as long as the target and every letter, the
\* positions of the word that hold the letter and are marked Correct or
\* Elsewhere are no more than the occurrences of the letter in the target,
\* and a position where word and target agree is marked Correct.
C15_DuplicateLetterBound ==
    \A w \in rowWords :
        Len(w) = Len(target) =>
            LET kinds == clueKinds(w, target)
            IN  /\ \A l \in Letters :
                      Cardinality({i \in DOMAIN w :
                                      w[i] = l /\ kinds[i] \in {Correct, Elsewhere}})
                          <= occurrences(l, target)
                /\ \A i \in DOMAIN w : w[i] = target[i] => kinds[i] = Correct

\* a full input repeats a letter that the target has less often: one
\* occurrence is marked Elsewhere and a later one Absent
C15_Witness ==
    /\ Len(currentGuess) = Len(target)
    /\ \E i, j \in DOMAIN currentGuess :
          /\ i < j
          /\ currentGuess[i] = currentGuess[j]
          /\ clueKinds(currentGuess, target)[i] = Elsewhere
          /\ clueKinds(currentGuess, target)[j] = Absent

\* C16: a step runs the Selector exactly when it changes the guesses, and a
\* step that changes the target or the pool locks a guess, resets the game or
\* changes the word length.
C16_SelectorOnHistoryChange ==
    [][/\ selectorRan <=> guesses' # guesses
       /\ (target' # target \/ targets' # targets)
             => committed \/ wasReset \/ wordLength' # wordLength]_vars

\* the player gave up while the pool still held several words, and the pool
\* and the target outlived the give-up
C16_Witness ==
    /\ gameState = "Lost"
    /\ hint.kind = giveUpHint
    /\ consoleLog = <<>>
    /\ Len(targets) >= 2
    /\ listener.target = target
    /\ listener.targets = targets

\* C17: on a step that runs the Selector all valid words have the same
\* score, the new pool is the whole valid set in pool order (the pool itself
\* when no guess is locked), and the new target is a valid word.
C17_MinimumFiltersNothing ==
    [][selectorRan =>
          LET valid == validSet(ranOn.guesses, ranOn.targets, ranOn.target)
          IN  /\ \A t, u \in valid : halves(ranOn.guesses, t) = halves(ranOn.guesses, u)
              /\ targets' = SelectSeq(ranOn.targets, LAMBDA t : t \in valid)
              /\ ranOn.guesses = <<>> => targets' = ranOn.targets
              /\ target' \in valid]_vars

\* with a guess locked, the Selector moved the target to the other word of a
\* pool of two
C17_Witness ==
    /\ guesses # <<>>
    /\ consoleLog # <<>>
    /\ Len(targets) = 2
    /\ listener.guesses = guesses
    /\ listener.target \in Range(targets)
    /\ listener.target # target

\* C18: a locked guess that was wrong (every locked guess but the last one of
\* a won game) is not in the pool and is not the target.
C18_WrongGuessNeverAnswer ==
    \A i \in DOMAIN guesses :
        (i < Len(guesses) \/ gameState # "Won")
            => guesses[i] \notin Range(targets) /\ target # guesses[i]

\* a candidate word was guessed wrongly and the game goes on without it
C18_Witness ==
    /\ gameState = "Playing"
    /\ Len(guesses) >= 1
    /\ guesses[1] \in Range(fullList)
    /\ guesses[1] \notin Range(targets)

\* C19: in Won the target is the last locked guess and the pool holds that
\* word and no other.
C19_WonPoolIsGuess ==
    gameState = "Won"
        => /\ target = guesses[Len(guesses)]
           /\ Range(targets) = {target}

\* the first guess won against a target that the full list does not decide
C19_Witness ==
    /\ gameState = "Won"
    /\ Len(guesses) = 1
    /\ Range(targets) = {guesses[1]}
    /\ Len(fullList) > 1

\* C20: while an input is being typed in Playing the keydown listener holds
\* the target, the guesses and the word length of the state; and a step that
\* locks a guess decides Won by the state's target and Lost by the state's
\* number of locked guesses, and a "You lost" hint names the state's target.
C20_NoStaleCommit ==
    /\ []((gameState = "Playing" /\ currentGuess # <<>>)
            => /\ listener.target = target
               /\ listener.guesses = guesses
               /\ listener.wordLength = wordLength)
    /\ [][committed =>
            /\ gameState' = "Won" <=> currentGuess = target
            /\ gameState' = "Lost" <=>
                  (currentGuess # target /\ Len(guesses) + 1 = maxGuesses)
            /\ gameState' = "Lost" => hint'.word = toUpperCase(target)]_vars

\* the listener holds a target older than the last reselection and has
\* handled an Enter on the empty input
C20_Witness ==
    /\ gameState = "Playing"
    /\ Len(guesses) >= 1
    /\ currentGuess = <<>>
    /\ hint = hintTooShort
    /\ listener.target # target

====
